---------------------------- MODULE Spec2Model ----------------------------
(***************************************************************************)
(* Model of marblecutter/__init__.py: the crop utility, the render         *)
(* orchestrator and the window planner (read_window).                      *)
(*                                                                         *)
(* Coordinates are integers.  Requests are drawn so that every division    *)
(* the code performs on them is exact, hence the arithmetic of the model   *)
(* is the arithmetic of the code on those inputs.  The global mercator     *)
(* extent is measured in pixels of the finest zoom level of the model      *)
(* (MaxZoom), so that the circumference is TileSize * 2^MaxZoom units and  *)
(* every zoom level has an integer resolution.                             *)
(***************************************************************************)
EXTENDS Integers, Sequences, FiniteSets, TLC

VARIABLES
    cropPc,     \* crop: "idle" before the call, "done" after it
    cropIn,     \* crop: the arguments of the call
    cropOut,    \* crop: the returned value (None before the call)
    req,        \* render: the arguments of the call
    pc,         \* render: position in the body of render
    loc,        \* render: local variables
    calls,      \* render: collaborators invoked so far, in order
    outcome,    \* render: returned value or raised error
    rwIn,       \* read_window: the arguments (src, bounds, crs, shape)
    rwPc,       \* read_window: position in the body
    rwLoc,      \* read_window: local variables
    rwRes,      \* read_window: resources currently open
    rwOut       \* read_window: returned value or raised error

vars == <<cropPc, cropIn, cropOut, req, pc, loc, calls, outcome,
          rwIn, rwPc, rwLoc, rwRes, rwOut>>

cropVars == <<cropPc, cropIn, cropOut>>
renderVars == <<req, pc, loc, calls, outcome>>
rwVars == <<rwIn, rwPc, rwLoc, rwRes, rwOut>>

\* Python's None: where a CRS or a not yet assigned variable is expected,
\* and where bounds (a tuple) are expected.
None == "None"
NoBounds == << >>

\* ------------------------------------------------------------- bounds
MaxDim == 3         \* largest requested / array dimension
MaxOff == 1         \* largest crop offset and largest buffer
MaxZoom == 2        \* finest zoom level of the mercator pyramid of the model

\* ------------------------------------------------------------ helpers
Min(a, b) == IF a < b THEN a ELSE b
Max(a, b) == IF a > b THEN a ELSE b
Abs(a) == IF a < 0 THEN -a ELSE a

RECURSIVE Pow2(_)
Pow2(n) == IF n <= 0 THEN 1 ELSE 2 * Pow2(n - 1)

\* floor and ceiling of a / b for b > 0 (\div floors in TLA+)
FloorDiv(a, b) == a \div b
CeilDiv(a, b) == -((-a) \div b)

\* Python's a[start:stop] on a sequence: negative indices count from the
\* end, and both ends are clipped to the sequence.
PyIndex(n, k) == IF k < 0 THEN Max(k + n, 0) ELSE Min(k, n)
PySlice(s, start, stop) ==
    SubSeq(s, PyIndex(Len(s), start) + 1, PyIndex(Len(s), stop))

\* An array holding, in every spatial cell, the (row, col) it came from.
\* px is rows of cells; shape is the numpy shape tuple.
Pixels(h, w) == [r \in 1..h |-> [c \in 1..w |-> <<r - 1, c - 1>>]]
RawArray(bands, h, w) == [shape |-> <<bands, h, w>>, px |-> Pixels(h, w)]
ImageArray(h, w, ch) == [shape |-> <<h, w, ch>>, px |-> Pixels(h, w)]
Rows(px) == Len(px)
Cols(px) == IF Len(px) = 0 THEN 0 ELSE Len(px[1])

\* ------------------------------------------------------ CRS and extent
WEB_MERCATOR_CRS == "EPSG:3857"
WGS84_CRS == "EPSG:4326"
OTHER_CRS == "EPSG:32610"       \* a projected CRS that is not registered
TileSize == 256
Circumference == TileSize * Pow2(MaxZoom)

EXTENTS ==
    [c \in {WEB_MERCATOR_CRS, WGS84_CRS} |->
        IF c = WEB_MERCATOR_CRS
        THEN << -(Circumference \div 2), -(Circumference \div 2),
                Circumference \div 2, Circumference \div 2 >>
        ELSE << -180, -90, 180, 90 >>]

IsGeographic(crs) == crs = WGS84_CRS

\* get_extent: EXTENTS[str(crs)]; a missing key raises KeyError.
KeyError == "KeyError"
get_extent(crs) == IF crs \in DOMAIN EXTENTS THEN EXTENTS[crs] ELSE KeyError

\* ---------------------------------------------------------------- crop
Formats == {"raw", "RGB", "rgb", "RGBA", "Rgba"}
Upper(s) ==
    CASE s \in {"RGB", "rgb"} -> "RGB"
      [] s \in {"RGBA", "Rgba"} -> "RGBA"
      [] OTHER -> "RAW"
_isimage(data_format) == Upper(data_format) \in {"RGB", "RGBA"}

\* transform.from_bounds(west, south, east, north, width, height):
\* x = c + a * col, y = f + e * row
ExactDiv(a, b) == IF b < 0 THEN -(a \div (-b)) ELSE a \div b
from_bounds(b, width, height) ==
    [a |-> ExactDiv(b[3] - b[1], width), e |-> ExactDiv(b[2] - b[4], height),
     c |-> b[1], f |-> b[4]]

\* windows.Window(col_off, row_off, num_cols, num_rows)
Window(col_off, row_off, num_cols, num_rows) ==
    [col_off |-> col_off, row_off |-> row_off,
     num_cols |-> num_cols, num_rows |-> num_rows]

\* windows.bounds(window, transform) -> (left, bottom, right, top)
window_bounds(w, t) ==
    << t.c + t.a * w.col_off,
       t.f + t.e * (w.row_off + w.num_rows),
       t.c + t.a * (w.col_off + w.num_cols),
       t.f + t.e * w.row_off >>

SliceLen(n, start, stop) == Max(PyIndex(n, stop) - PyIndex(n, start), 0)
SliceRows(px, start, stop) == PySlice(px, start, stop)
SliceCols(px, start, stop) ==
    [r \in 1..Len(px) |-> PySlice(px[r], start, stop)]

\* crop((data, (bounds, data_crs)), data_format, offsets)
\* offsets = (left, right, bottom, top)
crop(data, bounds, data_crs, data_format, offsets) ==
    LET left == offsets[1]
        right == offsets[2]
        bottom == offsets[3]
        top == offsets[4]
    IN  IF _isimage(data_format)
        THEN \* width, height, _ = data.shape
             \* data = data[top:height - bottom, left:width - right, :]
             LET width == data.shape[1]
                 height == data.shape[2]
             IN  [data |->
                    [shape |-> <<SliceLen(data.shape[1], top, height - bottom),
                                 SliceLen(data.shape[2], left, width - right),
                                 data.shape[3]>>,
                     px |-> SliceCols(SliceRows(data.px, top, height - bottom),
                                      left, width - right)],
                  bounds |-> NoBounds, crs |-> None]
        ELSE \* _, height, width = data.shape
             \* data = data[:, top:height - bottom, left:width - right]
             LET height == data.shape[2]
                 width == data.shape[3]
                 t == from_bounds(bounds, width, height)
                 newshape == <<data.shape[1],
                               SliceLen(data.shape[2], top, height - bottom),
                               SliceLen(data.shape[3], left, width - right)>>
                 \* windows.Window(left, top, *data.shape[1:])
                 cropped_window == Window(left, top, newshape[2], newshape[3])
             IN  [data |->
                    [shape |-> newshape,
                     px |-> SliceCols(SliceRows(data.px, top, height - bottom),
                                      left, width - right)],
                  bounds |-> window_bounds(cropped_window, t),
                  crs |-> data_crs]

\* Arguments of a crop call: any data shape, any format spelling, any
\* offsets; the bounds have integer resolution xres, yres.
CropInputs ==
    { [h |-> h, w |-> w, fmt |-> f, offsets |-> <<l, r, b, t>>,
       bounds |-> <<x0, y0, x0 + xres * w, y0 + yres * h>>, crs |-> c] :
        h \in 1..MaxDim, w \in 1..MaxDim, f \in Formats,
        l \in 0..MaxOff, r \in 0..MaxOff, b \in 0..MaxOff, t \in 0..MaxOff,
        x0 \in {0}, y0 \in {-4}, xres \in {1, 2}, yres \in {1, 3},
        c \in {WEB_MERCATOR_CRS} }

CropArray(in) ==
    IF _isimage(in.fmt) THEN ImageArray(in.h, in.w, IF Upper(in.fmt) = "RGB" THEN 3 ELSE 4)
    ELSE RawArray(1, in.h, in.w)

CropCall ==
    /\ cropPc = "idle"
    /\ cropPc' = "done"
    /\ \E in \in CropInputs :
         /\ cropIn' = in
         /\ cropOut' = crop(CropArray(in), in.bounds, in.crs, in.fmt, in.offsets)
    /\ UNCHANGED <<renderVars, rwVars>>

\* -------------------------------------------------- resolution helpers
ZeroDivisionError == "ZeroDivisionError"

\* get_resolution((bounds, crs), (height, width)): abs(t.a), abs(t.e);
\* from_bounds divides by width and height.
get_resolution(bounds, crs, shape) ==
    IF shape[1] = 0 \/ shape[2] = 0 THEN ZeroDivisionError
    ELSE LET t == from_bounds(bounds, shape[2], shape[1])
         IN  <<Abs(t.a), Abs(t.e)>>

\* get_resolution_in_meters: a geographic CRS takes the great-circle length
\* of the two midlines, kept here as the pair (midline, pixels) it divides;
\* a projected CRS delegates to get_resolution.
get_resolution_in_meters(bounds, crs, shape) ==
    IF IsGeographic(crs)
    THEN IF shape[1] = 0 \/ shape[2] = 0 THEN ZeroDivisionError
         ELSE << [haversine |-> <<bounds[1], bounds[3]>>, per |-> shape[2]],
                 [haversine |-> <<bounds[4], bounds[2]>>, per |-> shape[1]] >>
    ELSE get_resolution(bounds, crs, shape)

\* -------------------------------------------------------------- render
\* Lines 297-302: effective_buffer and offset.
\* transformation=None is the record with present = FALSE;
\* hasBuffer is hasattr(transformation, 'buffer').
NoTransformation ==
    [present |-> FALSE, hasBuffer |-> FALSE, buffer |-> 0, fmt |-> "raw"]
HasBuffer(tf) == tf.present /\ tf.hasBuffer
EffectiveBuffer(buffer, tf) ==
    IF HasBuffer(tf) THEN buffer + tf.buffer ELSE buffer
Offset(tf) == IF HasBuffer(tf) THEN tf.buffer ELSE 0

\* ApplyBuffer with the two axes of the resolution exchanged.
ApplyBufferSwappedRes(bounds, shape, eb, resolution, offset) ==
    [shape |-> <<shape[1] + 2 * eb, shape[2] + 2 * eb>>,
     bounds |-> << bounds[1] - eb * resolution[2],
                   bounds[2] - eb * resolution[1],
                   bounds[3] + eb * resolution[2],
                   bounds[4] + eb * resolution[1] >>,
     offsets |-> <<offset, offset, offset, offset>>]

\* Lines 305-311: shape and bounds grown by the effective buffer, and the
\* four crop offsets (left, right, bottom, top) set to offset.
ApplyBuffer(bounds, shape, eb, resolution, offset) ==
    [shape |-> <<shape[1] + 2 * eb, shape[2] + 2 * eb>>,
     bounds |-> << bounds[1] - eb * resolution[1],
                   bounds[2] - eb * resolution[2],
                   bounds[3] + eb * resolution[1],
                   bounds[4] + eb * resolution[2] >>,
     offsets |-> <<offset, offset, offset, offset>>]

\* ClampToExtent whose right edge shrinks the height, not the width.
ClampToExtentWrongAxis(st, bounds_orig, extent, eb) ==
    LET s1 == IF st.bounds[1] < extent[1]
              THEN [st EXCEPT !.shape[2] = @ - eb,
                              !.bounds[1] = bounds_orig[1],
                              !.offsets[1] = 0]
              ELSE st
        s2 == IF s1.bounds[3] > extent[3]
              THEN [s1 EXCEPT !.shape[1] = @ - eb,
                              !.bounds[3] = bounds_orig[3],
                              !.offsets[2] = 0]
              ELSE s1
        s3 == IF s2.bounds[2] < extent[2]
              THEN [s2 EXCEPT !.shape[1] = @ - eb,
                              !.bounds[2] = bounds_orig[2],
                              !.offsets[3] = 0]
              ELSE s2
        s4 == IF s3.bounds[4] > extent[4]
              THEN [s3 EXCEPT !.shape[1] = @ - eb,
                              !.bounds[4] = bounds_orig[4],
                              !.offsets[4] = 0]
              ELSE s3
    IN  s4

\* Lines 316-334: the four edges, one after the other.
\* st.shape is (height, width); st.offsets is (left, right, bottom, top).
ClampToExtent(st, bounds_orig, extent, eb) ==
    LET s1 == IF st.bounds[1] < extent[1]
              THEN [st EXCEPT !.shape[2] = @ - eb,
                              !.bounds[1] = bounds_orig[1],
                              !.offsets[1] = 0]
              ELSE st
        s2 == IF s1.bounds[3] > extent[3]
              THEN [s1 EXCEPT !.shape[2] = @ - eb,
                              !.bounds[3] = bounds_orig[3],
                              !.offsets[2] = 0]
              ELSE s1
        s3 == IF s2.bounds[2] < extent[2]
              THEN [s2 EXCEPT !.shape[1] = @ - eb,
                              !.bounds[2] = bounds_orig[2],
                              !.offsets[3] = 0]
              ELSE s2
        s4 == IF s3.bounds[4] > extent[4]
              THEN [s3 EXCEPT !.shape[1] = @ - eb,
                              !.bounds[4] = bounds_orig[4],
                              !.offsets[4] = 0]
              ELSE s3
    IN  s4

\* NeedsCrop that also crops the caller's own buffer.
NeedsCropAnyBuffer(effective_buffer, buffer) == effective_buffer > 0

\* Line 346: whether the transformation's margin is cropped.
NeedsCrop(effective_buffer, buffer) == effective_buffer > buffer

\* The transformations of the model: none, or one that returns data_format
\* fmt, keeps the spatial size, and may declare a buffer.
Transformations ==
    {NoTransformation} \cup
    [present : {TRUE}, hasBuffer : {FALSE}, buffer : {0}, fmt : {"raw", "RGB"}] \cup
    [present : {TRUE}, hasBuffer : {TRUE}, buffer : 0..MaxOff, fmt : {"raw", "RGB"}]

Intervals(crs, lo, hi) ==
    IF crs \in DOMAIN EXTENTS
    THEN { <<EXTENTS[crs][lo], EXTENTS[crs][hi]>>, <<EXTENTS[crs][lo], 0>>,
           <<0, EXTENTS[crs][hi]>>, <<-6, 6>> }
    ELSE { <<-6, 6>>, <<0, 12>> }

Divides(d, n) == d = 0 \/ n % Abs(d) = 0

\* Arguments of a render call in one CRS. The shape may be invalid (zero,
\* negative); a nonzero dimension divides the extent of the bounds on its
\* axis, so that the resolution is an integer.
RenderInputsIn(c) ==
    { r \in [bounds : { <<x[1], y[1], x[2], y[2]>> :
                          x \in Intervals(c, 1, 3), y \in Intervals(c, 2, 4) },
             crs : {c}, shape : (-1..MaxDim) \X (-1..MaxDim),
             target_crs : {WEB_MERCATOR_CRS},
             buffer : 0..MaxOff, tf : Transformations] :
        /\ Divides(r.shape[2], r.bounds[3] - r.bounds[1])
        /\ Divides(r.shape[1], r.bounds[4] - r.bounds[2]) }

RenderInputs ==
    UNION { RenderInputsIn(c) : c \in {WEB_MERCATOR_CRS, WGS84_CRS, OTHER_CRS} }

Raise(kind, at) == [status |-> "raised", error |-> kind, at |-> at]

RenderCall ==
    /\ pc = "idle"
    /\ \E r \in RenderInputs :
         /\ req' = r
    /\ pc' = "prepare"
    /\ UNCHANGED <<loc, calls, outcome, cropVars, rwVars>>

\* Lines 294-334: resolutions, buffering, extent clamping.
RenderPrepare ==
    /\ pc = "prepare"
    /\ LET resolution == get_resolution(req.bounds, req.crs, req.shape)
           resolution_m == get_resolution_in_meters(req.bounds, req.crs, req.shape)
           eb == EffectiveBuffer(req.buffer, req.tf)
           extent == get_extent(req.crs)
       IN  IF resolution = ZeroDivisionError
           THEN /\ outcome' = Raise(ZeroDivisionError, "get_resolution")
                /\ pc' = "done"
                /\ loc' = loc
           ELSE IF extent = KeyError
           THEN /\ outcome' = Raise(KeyError, "get_extent")
                /\ pc' = "done"
                /\ loc' = loc
           ELSE /\ loc' = ClampToExtent(
                              ApplyBuffer(req.bounds, req.shape, eb, resolution,
                                          Offset(req.tf)),
                              req.bounds, extent, eb)
                           @@ [effective_buffer |-> eb,
                               resolution |-> resolution,
                               resolution_m |-> resolution_m,
                               data |-> None, data_bounds |-> NoBounds,
                               data_crs |-> None, data_format |-> None]
                /\ pc' = "get_sources"
                /\ outcome' = outcome
    /\ UNCHANGED <<req, calls, cropVars, rwVars>>

CollaboratorError == "CollaboratorError"

Called(fn, ret) == [fn |-> fn, ret |-> ret]

\* Line 336: mosaic.get_sources((bounds, bounds_crs), resolution_m)
RenderGetSources ==
    /\ pc = "get_sources"
    /\ calls' = Append(calls, Called("get_sources", "sources"))
    /\ \/ /\ pc' = "composite"
          /\ outcome' = outcome
       \/ /\ pc' = "done"
          /\ outcome' = Raise(CollaboratorError, "get_sources")
    /\ UNCHANGED <<req, loc, cropVars, rwVars>>

\* Lines 338-339: mosaic.composite(sources, (bounds, bounds_crs), shape,
\* target_crs). The collaborator returns band-first data of the shape and
\* bounds it was asked for, in the target CRS, or raises; it cannot build an
\* array of a shape that is not positive.
RenderComposite ==
    /\ pc = "composite"
    /\ \/ /\ loc.shape[1] > 0 /\ loc.shape[2] > 0
          /\ LET data == RawArray(1, loc.shape[1], loc.shape[2])
             IN  /\ loc' = [loc EXCEPT !.data = data,
                                       !.data_bounds = loc.bounds,
                                       !.data_crs = req.target_crs,
                                       !.data_format = "raw"]
                 /\ calls' = Append(calls,
                        Called("composite", <<data, loc.bounds, req.target_crs>>))
          /\ pc' = "transformation"
          /\ outcome' = outcome
       \/ /\ calls' = Append(calls, Called("composite", CollaboratorError))
          /\ pc' = "done"
          /\ outcome' = Raise(CollaboratorError, "composite")
          /\ loc' = loc
    /\ UNCHANGED <<req, cropVars, rwVars>>

\* What a transformation returning data_format fmt makes of band-first
\* data: the same pixels, channel-last for an image format.
Transformed(data, fmt) ==
    IF _isimage(fmt)
    THEN [shape |-> <<data.shape[2], data.shape[3], 3>>, px |-> data.px]
    ELSE data

\* Lines 341-344: data_format = "raw"; the transformation, if any.
RenderTransform ==
    /\ pc = "transformation"
    /\ \/ /\ ~req.tf.present
          /\ pc' = "crop"
          /\ UNCHANGED <<loc, calls, outcome>>
       \/ /\ req.tf.present
          /\ LET data == Transformed(loc.data, req.tf.fmt)
             IN  /\ loc' = [loc EXCEPT !.data = data,
                                       !.data_format = req.tf.fmt]
                 /\ calls' = Append(calls,
                        Called("transformation", <<data, req.tf.fmt>>))
          /\ pc' = "crop"
          /\ outcome' = outcome
       \/ /\ req.tf.present
          /\ calls' = Append(calls, Called("transformation", CollaboratorError))
          /\ pc' = "done"
          /\ outcome' = Raise(CollaboratorError, "transformation")
          /\ loc' = loc
    /\ UNCHANGED <<req, cropVars, rwVars>>

\* Lines 346-350: crop by (left, right, bottom, top).
RenderCrop ==
    /\ pc = "crop"
    /\ \/ /\ NeedsCrop(loc.effective_buffer, req.buffer)
          /\ LET c == crop(loc.data, loc.data_bounds, loc.data_crs,
                           loc.data_format, loc.offsets)
             IN  /\ loc' = [loc EXCEPT !.data = c.data,
                                       !.data_bounds = c.bounds,
                                       !.data_crs = c.crs]
                 /\ calls' = Append(calls,
                        Called("crop", <<c.data, c.bounds, c.crs>>))
       \/ /\ ~NeedsCrop(loc.effective_buffer, req.buffer)
          /\ UNCHANGED <<loc, calls>>
    /\ pc' = "format"
    /\ UNCHANGED <<req, outcome, cropVars, rwVars>>

\* Line 352: return format((data, (data_bounds, data_crs)), data_format)
RenderFormat ==
    /\ pc = "format"
    /\ calls' = Append(calls,
          Called("format", <<loc.data, loc.data_bounds, loc.data_crs,
                             loc.data_format>>))
    /\ \/ outcome' = [status |-> "returned",
                      encoded |-> <<loc.data, loc.data_bounds, loc.data_crs,
                                    loc.data_format>>]
       \/ outcome' = Raise(CollaboratorError, "format")
    /\ pc' = "done"
    /\ UNCHANGED <<req, loc, cropVars, rwVars>>

\* --------------------------------------------------------- read_window
\* Lines 105-108: the error read_window raises for an unregistered CRS.
UnsupportedCRS == "Exception: Unsupported CRS"
SourceReadFailure == "SourceReadFailure"

\* get_zoom that rounds down.
get_zoom_floor(resolution, op) ==
    CHOOSE z \in 0..MaxZoom :
        /\ Pow2(z) * resolution <= Pow2(MaxZoom)
        /\ \A y \in (z + 1)..MaxZoom : Pow2(y) * resolution > Pow2(MaxZoom)

\* get_zoom(resolution, op): op(log2(2*pi*6378137 / (resolution * 256))).
\* The circumference is TileSize * 2^MaxZoom units, so the argument of the
\* logarithm is q = 2^MaxZoom / resolution:
\*   ceil:  the least z with 2^z >= q;
\*   round: the z with 2^(z - 1/2) <= q < 2^(z + 1/2), squared to stay in
\*          the integers.
get_zoom(resolution, op) ==
    IF op = "ceil"
    THEN CHOOSE z \in 0..MaxZoom :
            /\ Pow2(z) * resolution >= Pow2(MaxZoom)
            /\ \A y \in 0..(z - 1) : Pow2(y) * resolution < Pow2(MaxZoom)
    ELSE CHOOSE z \in 0..MaxZoom :
            /\ Pow2(2 * z) * resolution * resolution <= 2 * Pow2(2 * MaxZoom)
            /\ 2 * Pow2(2 * MaxZoom) < Pow2(2 * z + 2) * resolution * resolution

\* Lines 110-139: the destination grid (size, resolution, transform anchored
\* at the extent's left and top).
DestinationGrid(src, bounds, bounds_crs, shape, extent) ==
    IF bounds_crs = WEB_MERCATOR_CRS
    THEN LET res_m == get_resolution_in_meters(src.bounds, src.crs,
                                               <<src.height, src.width>>)
             zoom == get_zoom(Max(res_m[1], res_m[2]), "ceil")
             dst == Pow2(zoom) * TileSize
         IN  [dst_width |-> dst, dst_height |-> dst,
              resolution |-> << (extent[3] - extent[1]) \div dst,
                                (extent[4] - extent[2]) \div dst >>]
    ELSE LET resolution == get_resolution(bounds, bounds_crs, shape)
             dst_width == (extent[3] - extent[1]) \div resolution[1]
             dst_height == (extent[4] - extent[2]) \div resolution[2]
         IN  IF shape[2] % 2 = 1 \/ shape[1] % 2 = 1
             THEN [dst_width |-> dst_width * 2, dst_height |-> dst_height * 2,
                   resolution |-> <<resolution[1] \div 2, resolution[2] \div 2>>]
             ELSE [dst_width |-> dst_width, dst_height |-> dst_height,
                   resolution |-> resolution]

\* Line 150: vrt.window(*bounds): the pixel window of the bounds in the
\* destination grid, from the floor of its upper left and the ceiling of
\* its lower right corner.
vrt_window(bounds, extent, resolution) ==
    LET col0 == FloorDiv(bounds[1] - extent[1], resolution[1])
        col1 == CeilDiv(bounds[3] - extent[1], resolution[1])
        row0 == FloorDiv(extent[4] - bounds[4], resolution[2])
        row1 == CeilDiv(extent[4] - bounds[2], resolution[2])
    IN  Window(col0, row0, col1 - col0, row1 - row0)

\* Line 155: the spline correction is taken for one band and a scale factor
\* (num_cols / width, num_rows / height) below 1 on some axis.
UseSpline(count, dst_window, shape) ==
    count = 1 /\ (dst_window.num_cols < shape[2] \/ dst_window.num_rows < shape[1])

buffer_pixels == 2

\* Lines 171-173: the window read on the spline path.
ExpandedWindow(w) ==
    Window(w.col_off - buffer_pixels, w.row_off - buffer_pixels,
           w.num_cols + 2 * buffer_pixels, w.num_rows + 2 * buffer_pixels)

\* Lines 226-229, 238-241, 248-251: the mask of the primary read.
PrimaryMask(nodata) == IF nodata # None THEN "masked_nodata" ELSE "nothing_masked"

\* Lines 275-277: an exception anywhere in the mask block is swallowed and
\* read_window goes on to its return.
MaskExceptPropagates(error) == [pc |-> "done", out |-> Raise(error, "mask")]
MaskExcept(error) == [pc |-> "return", out |-> [status |-> "running"]]

\* Sources are rasters in a projected (metric) CRS, so that their native
\* resolution in metres is get_resolution of their bounds and size; the
\* native resolution is at most that of zoom level 0.
SrcRes == { <<rx, ry>> : rx \in 1..Pow2(MaxZoom), ry \in {1, 3} }
Sources ==
    { [name |-> "src.tif", crs |-> WEB_MERCATOR_CRS,
       bounds |-> <<0, 0, 2 * r[1], 2 * r[2]>>, height |-> 2, width |-> 2,
       count |-> n, nodata |-> nd, msk |-> m] :
        r \in SrcRes, n \in 1..2, nd \in {None, "-9999"},
        m \in {"missing", "present"} }

\* Requests of read_window: bounds inside the extent, aligned to the
\* destination grid or not; outside mercator the resolution, and its half
\* for an odd dimension, are integers.
RWRequests ==
    { q \in [bounds : { <<x[1], y[1], x[2], y[2]>> :
                          x \in {<<0, 6>>, <<-6, 6>>, <<1, 7>>},
                          y \in {<<0, 6>>, <<-6, 6>>} },
             crs : {WEB_MERCATOR_CRS, WGS84_CRS, OTHER_CRS},
             shape : (1..MaxDim) \X (1..MaxDim)] :
        q.crs # WEB_MERCATOR_CRS =>
          LET odd == IF q.shape[1] % 2 = 1 \/ q.shape[2] % 2 = 1 THEN 2 ELSE 1
          IN  /\ (q.bounds[3] - q.bounds[1]) % (q.shape[2] * odd) = 0
              /\ (q.bounds[4] - q.bounds[2]) % (q.shape[1] * odd) = 0 }

RWCall ==
    /\ rwPc = "idle"
    /\ \E src \in Sources, q \in RWRequests :
         rwIn' = [src |-> src, bounds |-> q.bounds, crs |-> q.crs,
                  shape |-> q.shape]
    /\ rwPc' = "plan"
    /\ rwLoc' = [reads |-> 0, mask_error |-> None]
    /\ UNCHANGED <<rwRes, rwOut, cropVars, renderVars>>

\* Lines 105-139: extent lookup and destination grid.
RWPlan ==
    /\ rwPc = "plan"
    /\ LET extent == get_extent(rwIn.crs)
       IN  IF extent = KeyError
           THEN /\ rwOut' = Raise(UnsupportedCRS, "get_extent")
                /\ rwPc' = "done"
                /\ rwLoc' = rwLoc
           ELSE /\ rwLoc' = rwLoc @@ [extent |-> extent]
                            @@ DestinationGrid(rwIn.src, rwIn.bounds, rwIn.crs,
                                               rwIn.shape, extent)
                /\ rwPc' = "warp"
                /\ rwOut' = rwOut
    /\ UNCHANGED <<rwIn, rwRes, cropVars, renderVars>>

\* Lines 141-155: the warped view, its window for the bounds, the path.
RWWarp ==
    /\ rwPc = "warp"
    /\ \/ /\ LET w == vrt_window(rwIn.bounds, rwLoc.extent, rwLoc.resolution)
             IN  rwLoc' = rwLoc @@
                    [dst_window |-> w,
                     path |-> IF UseSpline(rwIn.src.count, w, rwIn.shape)
                              THEN "spline" ELSE "direct"]
          /\ rwRes' = rwRes \cup {"vrt"}
          /\ rwPc' = "read"
          /\ rwOut' = rwOut
       \/ /\ rwOut' = Raise(SourceReadFailure, "warp")
          /\ rwPc' = "done"
          /\ UNCHANGED <<rwLoc, rwRes>>
    /\ UNCHANGED <<rwIn, cropVars, renderVars>>

\* Lines 156-253: the read on either path, the nodata mask, the cast; the
\* view is closed when the block is left, by a return or by an exception.
RWRead ==
    /\ rwPc = "read"
    /\ rwRes' = rwRes \ {"vrt"}
    /\ \/ /\ rwLoc' = [rwLoc EXCEPT !.reads = @ + 1] @@
                [window |-> IF rwLoc.path = "spline"
                            THEN ExpandedWindow(rwLoc.dst_window)
                            ELSE rwLoc.dst_window,
                 data |-> [shape |-> IF rwLoc.path = "spline"
                                     THEN <<1, rwIn.shape[1], rwIn.shape[2]>>
                                     ELSE <<rwIn.src.count, rwIn.shape[1],
                                            rwIn.shape[2]>>,
                           dtype |-> "float32",
                           mask |-> PrimaryMask(rwIn.src.nodata)]]
          /\ rwPc' = "mask_open"
          /\ rwOut' = rwOut
       \/ /\ rwOut' = Raise(SourceReadFailure, "read")
          /\ rwPc' = "done"
          /\ rwLoc' = rwLoc
    /\ UNCHANGED <<rwIn, cropVars, renderVars>>

\* What the mask block does when `error` is raised at `step`.
MaskFailed(step, error) ==
    /\ rwLoc' = [rwLoc EXCEPT !.mask_error = step]
    /\ rwRes' = rwRes \ {"mask_src", "mask_vrt"}
    /\ rwPc' = MaskExcept(error).pc
    /\ rwOut' = IF MaskExcept(error).pc = "done" THEN MaskExcept(error).out
                ELSE rwOut

\* Line 257: rasterio.open("{}.msk".format(src.name), crs=src.crs)
RWMaskOpen ==
    /\ rwPc = "mask_open"
    /\ \/ /\ rwIn.src.msk = "present"
          /\ rwRes' = rwRes \cup {"mask_src"}
          /\ rwPc' = "mask_warp"
          /\ UNCHANGED <<rwLoc, rwOut>>
       \/ MaskFailed("open", "IOError")
    /\ UNCHANGED <<rwIn, cropVars, renderVars>>

\* Lines 258-266: the warped view of the mask.
RWMaskWarp ==
    /\ rwPc = "mask_warp"
    /\ \/ /\ rwRes' = rwRes \cup {"mask_vrt"}
          /\ rwPc' = "mask_read"
          /\ UNCHANGED <<rwLoc, rwOut>>
       \/ MaskFailed("warp", "CPLE_AppDefinedError")
    /\ UNCHANGED <<rwIn, cropVars, renderVars>>

\* Lines 267-274: the window, asked of the primary view, which is closed by
\* now and may refuse; the read of the mask; data.mask = ~mask. Both mask
\* handles are closed when their blocks are left.
RWMaskRead ==
    /\ rwPc = "mask_read"
    /\ \/ /\ rwLoc' = [rwLoc EXCEPT !.data.mask = "companion",
                                    !.reads = @ + 1]
          /\ rwRes' = rwRes \ {"mask_src", "mask_vrt"}
          /\ rwPc' = "return"
          /\ rwOut' = rwOut
       \/ MaskFailed("window", "RasterioIOError")
       \/ MaskFailed("read", "RasterioIOError")
    /\ UNCHANGED <<rwIn, cropVars, renderVars>>

\* Line 279: return (data, (bounds, bounds_crs))
RWReturn ==
    /\ rwPc = "return"
    /\ rwOut' = [status |-> "returned", data |-> rwLoc.data,
                 bounds |-> rwIn.bounds, crs |-> rwIn.crs]
    /\ rwPc' = "done"
    /\ UNCHANGED <<rwIn, rwLoc, rwRes, cropVars, renderVars>>

Init ==
    /\ cropPc = "idle" /\ cropIn = None /\ cropOut = None
    /\ req = None /\ pc = "idle" /\ loc = None /\ calls = <<>>
    /\ outcome = [status |-> "running"]
    /\ rwIn = None /\ rwPc = "idle" /\ rwLoc = None /\ rwRes = {}
    /\ rwOut = [status |-> "running"]

Next ==
    \/ RenderCall
    \/ RenderPrepare
    \/ RenderGetSources
    \/ RenderComposite
    \/ RenderTransform
    \/ RenderCrop
    \/ RenderFormat

Spec == Init /\ [][Next]_vars

CropNext == CropCall

SpecCrop == Init /\ [][CropNext]_vars

RWNext ==
    \/ RWCall
    \/ RWPlan
    \/ RWWarp
    \/ RWRead
    \/ RWMaskOpen
    \/ RWMaskWarp
    \/ RWMaskRead
    \/ RWReturn

SpecRW == Init /\ [][RWNext]_vars

\* ====================================================== render claims
\* What the claims read of a render call, computed from the request alone.
Prepared ==
    pc \in {"get_sources", "composite", "transformation", "crop", "format"}
    \/ (pc = "done" /\ calls # <<>>)
PositiveShape == req.shape[1] > 0 /\ req.shape[2] > 0
DeclaredBuffer ==
    IF req.tf.present /\ req.tf.hasBuffer THEN req.tf.buffer ELSE 0
ReqEffective == req.buffer + DeclaredBuffer
ReqRes ==
    << (req.bounds[3] - req.bounds[1]) \div Abs(req.shape[2]),
       (req.bounds[4] - req.bounds[2]) \div Abs(req.shape[1]) >>
BufferedBounds ==
    << req.bounds[1] - ReqEffective * ReqRes[1],
       req.bounds[2] - ReqEffective * ReqRes[2],
       req.bounds[3] + ReqEffective * ReqRes[1],
       req.bounds[4] + ReqEffective * ReqRes[2] >>
\* Edges 1..4 = left, bottom, right, top (the order of the bounds).
Outside(i) ==
    IF i <= 2 THEN BufferedBounds[i] < EXTENTS[req.crs][i]
    ELSE BufferedBounds[i] > EXTENTS[req.crs][i]
Count(b) == IF b THEN 1 ELSE 0
Interior == \A i \in 1..4 : ~Outside(i)
\* loc.offsets is (left, right, bottom, top).
OffsetOfEdge(i) == loc.offsets[CASE i = 1 -> 1 [] i = 2 -> 3 [] i = 3 -> 2 [] i = 4 -> 4]
SpatialSize(data, data_format) ==
    IF _isimage(data_format) THEN <<data.shape[1], data.shape[2]>>
    ELSE <<data.shape[2], data.shape[3]>>

\* C1: on an interior request with a valid shape (height, width), own buffer
\* B and any transformation, the array handed to the encoder has spatial
\* size exactly (height + 2*B, width + 2*B), whatever the data format.
C1_EncoderShape ==
    (pc = "done" /\ outcome.status = "returned" /\ PositiveShape /\ Interior)
    => /\ SpatialSize(outcome.encoded[1], outcome.encoded[4])
            = <<req.shape[1] + 2 * req.buffer, req.shape[2] + 2 * req.buffer>>
       /\ Rows(outcome.encoded[1].px) = req.shape[1] + 2 * req.buffer
       /\ Cols(outcome.encoded[1].px) = req.shape[2] + 2 * req.buffer

\* C2: every edge is clamped on its own: an edge whose buffered bound lies
\* outside the extent gets its original bound and crop offset 0 and takes
\* effective_buffer off the dimension of its axis once; every other edge
\* keeps its buffered bound and the transformation's declared buffer as its
\* crop offset.
C2_ClampPerEdge ==
    Prepared =>
       /\ \A i \in 1..4 :
            /\ loc.bounds[i] = IF Outside(i) THEN req.bounds[i] ELSE BufferedBounds[i]
            /\ OffsetOfEdge(i) = IF Outside(i) THEN 0 ELSE DeclaredBuffer
       /\ loc.shape[2] = req.shape[2] + 2 * ReqEffective
                         - ReqEffective * (Count(Outside(1)) + Count(Outside(3)))
       /\ loc.shape[1] = req.shape[1] + 2 * ReqEffective
                         - ReqEffective * (Count(Outside(2)) + Count(Outside(4)))

\* C2 witness: a buffered request that leaves the extent on its right edge
\* only, shrunk by effective_buffer on the width only.
C2_Witness ==
    /\ Prepared /\ PositiveShape /\ ReqEffective > 0 /\ DeclaredBuffer > 0
    /\ Outside(3) /\ ~Outside(1) /\ ~Outside(2) /\ ~Outside(4)
    /\ loc.shape = <<req.shape[1] + 2 * ReqEffective, req.shape[2] + ReqEffective>>
    /\ loc.offsets = <<DeclaredBuffer, 0, DeclaredBuffer, DeclaredBuffer>>

\* C7: an unregistered CRS fails with the UnsupportedCRS error in
\* get_extent, in render and in read_window alike, before any source is
\* read or any collaborator is invoked.
C7_UnsupportedCRS ==
    /\ (pc = "done" /\ req.crs \notin DOMAIN EXTENTS
            /\ req.shape[1] > 0 /\ req.shape[2] > 0)
       => (outcome.status = "raised" /\ outcome.error = UnsupportedCRS
            /\ calls = <<>>)
    /\ (rwPc = "done" /\ rwIn.crs \notin DOMAIN EXTENTS)
       => (rwOut.status = "raised" /\ rwOut.error = UnsupportedCRS
            /\ rwLoc.reads = 0)

\* C8: a request whose width or height is zero or negative is rejected: the
\* call raises, and neither the mosaic collaborator nor the encoder is
\* invoked.
C8_InvalidShapeRejected ==
    (pc # "idle" /\ ~PositiveShape)
    => /\ calls = <<>>
       /\ pc \in {"prepare", "done"}
       /\ (pc = "done" => outcome.status = "raised")

\* C9: the collaborators run in the fixed order get_sources, composite,
\* transformation (if supplied), crop (if effective_buffer > own buffer),
\* encoder; each at most once; the encoder gets the output of the step
\* before it; a failure before the encoder surfaces and the encoder is not
\* invoked.
ExpectedCalls ==
    <<"get_sources", "composite">>
    \o (IF req.tf.present THEN <<"transformation">> ELSE <<>>)
    \o (IF ReqEffective > req.buffer THEN <<"crop">> ELSE <<>>)
    \o <<"format">>
CallNames == [i \in 1..Len(calls) |-> calls[i].fn]
C9_CallOrder ==
    (pc # "idle") =>
       /\ Len(calls) <= Len(ExpectedCalls)
       /\ CallNames = SubSeq(ExpectedCalls, 1, Len(calls))
       /\ (pc = "done") = (outcome.status # "running")
       /\ outcome.status = "returned" =>
            /\ CallNames = ExpectedCalls
            /\ outcome.encoded = calls[Len(calls)].ret
            /\ calls[Len(calls)].ret[1] = calls[Len(calls) - 1].ret[1]
       /\ (outcome.status = "raised" /\ outcome.at # "format") =>
            /\ \A i \in 1..Len(calls) : calls[i].fn # "format"
            /\ outcome.at \in {"get_resolution", "get_extent"} => calls = <<>>
            /\ outcome.at \notin {"get_resolution", "get_extent"} =>
                 calls[Len(calls)].fn = outcome.at

\* C9 witness: a call with a transformation and a crop that returned.
C9_Witness ==
    /\ pc = "done" /\ outcome.status = "returned" /\ PositiveShape
    /\ CallNames = <<"get_sources", "composite", "transformation", "crop", "format">>

\* C10: the bounds and shape handed to the mosaic collaborator have the
\* per-axis resolution of the original request, and the bounds contain the
\* original bounds, whichever edges were clamped.
C10_ResolutionKept ==
    (Prepared /\ PositiveShape) =>
       /\ loc.shape[1] > 0 /\ loc.shape[2] > 0
       /\ (loc.bounds[3] - loc.bounds[1]) * req.shape[2]
            = (req.bounds[3] - req.bounds[1]) * loc.shape[2]
       /\ (loc.bounds[4] - loc.bounds[2]) * req.shape[1]
            = (req.bounds[4] - req.bounds[2]) * loc.shape[1]
       /\ loc.bounds[1] <= req.bounds[1] /\ loc.bounds[2] <= req.bounds[2]
       /\ loc.bounds[3] >= req.bounds[3] /\ loc.bounds[4] >= req.bounds[4]
       /\ \A i \in 1..Len(calls) :
            calls[i].fn = "composite" /\ calls[i].ret # CollaboratorError
            => calls[i].ret[2] = loc.bounds

\* C10 witness: both buffers in use, three edges clamped, one buffered,
\* and different resolutions on the two axes.
C10_Witness ==
    /\ Prepared /\ PositiveShape /\ req.buffer > 0 /\ DeclaredBuffer > 0
    /\ Outside(1) /\ Outside(2) /\ Outside(3) /\ ~Outside(4)
    /\ ReqRes[1] # ReqRes[2]
    /\ pc = "composite"

\* ================================================= read_window claims
Planned == rwPc \in {"read", "mask_open", "mask_warp", "mask_read", "return"}
           \/ (rwPc = "done" /\ rwLoc.reads > 0)
SpanX == rwIn.bounds[3] - rwIn.bounds[1]
SpanY == rwIn.bounds[4] - rwIn.bounds[2]
\* The source's native resolution, per axis and the coarser of the two.
SrcResX == (rwIn.src.bounds[3] - rwIn.src.bounds[1]) \div rwIn.src.width
SrcResY == (rwIn.src.bounds[4] - rwIn.src.bounds[2]) \div rwIn.src.height
SrcResMax == Max(SrcResX, SrcResY)
\* requested resolution = span / size, compared without dividing
SourceCoarser == SrcResX * rwIn.shape[2] > SpanX /\ SrcResY * rwIn.shape[1] > SpanY
ViewSmaller ==
    \/ rwLoc.dst_window.num_cols < rwIn.shape[2]
    \/ rwLoc.dst_window.num_rows < rwIn.shape[1]

\* C5 as claimed: a single-band source coarser than the request always
\* takes the spline-correction path (here with source and request both in
\* global mercator, where the two resolutions have the same unit).
C5_CoarserSourceSplines ==
    (Planned /\ rwIn.crs = WEB_MERCATOR_CRS /\ rwIn.src.count = 1 /\ SourceCoarser)
    => rwLoc.path = "spline"

\* C5 amended: the spline path is taken exactly for one band and a view
\* window smaller than the target on some axis. In global mercator the
\* destination grid is at least as fine as the source's coarser native
\* resolution and less than twice as fine, so the spline path implies a
\* request finer than that resolution (not the converse). In any other
\* registered CRS the view window is at least the target size and the direct
\* read is taken.
C5_SplineWhenViewSmaller ==
    Planned =>
       /\ (rwLoc.path = "spline") <=> (rwIn.src.count = 1 /\ ViewSmaller)
       /\ rwLoc.path \in {"spline", "direct"}
       /\ rwIn.crs = WEB_MERCATOR_CRS =>
            /\ rwLoc.resolution[1] = rwLoc.resolution[2]
            /\ rwLoc.resolution[1] <= SrcResMax
            /\ SrcResMax < 2 * rwLoc.resolution[1]
            /\ rwLoc.dst_width * rwLoc.resolution[1] = Circumference
            /\ rwLoc.path = "spline" =>
                 \/ SpanX < SrcResMax * rwIn.shape[2]
                 \/ SpanY < SrcResMax * rwIn.shape[1]
       /\ rwIn.crs # WEB_MERCATOR_CRS =>
            /\ ~ViewSmaller
            /\ rwLoc.path = "direct"

\* C5 witness: a single-band mercator read that took the spline path and
\* returned one band of the requested size.
C5_Witness ==
    /\ rwPc = "done" /\ rwOut.status = "returned"
    /\ rwIn.crs = WEB_MERCATOR_CRS /\ rwLoc.path = "spline"
    /\ rwOut.data.shape = <<1, rwIn.shape[1], rwIn.shape[2]>>

\* C6: a failure of the companion mask at any point never aborts the call:
\* read_window returns the primary data in the requested shape, the echoed
\* bounds and CRS and the mask of the primary read. The mask is opened only
\* after the primary read, and no handle is open when read_window is left.
C6_MaskFailureSwallowed ==
    (rwPc # "idle") =>
       /\ rwLoc.mask_error # None =>
            /\ rwPc \in {"return", "done"}
            /\ rwOut.status # "raised"
            /\ rwLoc.data.mask = PrimaryMask(rwIn.src.nodata)
            /\ rwRes = {}
            /\ rwPc = "done" =>
                 /\ rwOut.status = "returned"
                 /\ rwOut.data.shape
                      = <<rwIn.src.count, rwIn.shape[1], rwIn.shape[2]>>
                 /\ rwOut.data.mask = PrimaryMask(rwIn.src.nodata)
                 /\ rwOut.bounds = rwIn.bounds /\ rwOut.crs = rwIn.crs
       /\ (rwRes \cap {"mask_src", "mask_vrt"} # {}) =>
            (rwLoc.reads >= 1 /\ "vrt" \notin rwRes)
       /\ rwPc = "done" => rwRes = {}

\* C6 witness: the mask was opened and warped, its read failed, and the
\* call returned.
C6_Witness ==
    /\ rwPc = "done" /\ rwOut.status = "returned"
    /\ rwLoc.mask_error = "read" /\ rwIn.src.msk = "present"
    /\ rwIn.src.nodata # None

\* ======================================================== crop claims
\* offsets that leave at least one row and one column
CropValidOffsets ==
    /\ cropIn.offsets[1] + cropIn.offsets[2] < cropIn.w
    /\ cropIn.offsets[3] + cropIn.offsets[4] < cropIn.h
\* rows [top : h - bottom] and columns [left : w - right] of the input
CropExpectedPixels ==
    [r \in 1..(cropIn.h - cropIn.offsets[4] - cropIn.offsets[3]) |->
       [c \in 1..(cropIn.w - cropIn.offsets[1] - cropIn.offsets[2]) |->
          <<r - 1 + cropIn.offsets[4], c - 1 + cropIn.offsets[1]>>]]

\* C3: crop on band-first data returns data[:, top:height-bottom,
\* left:width-right], the bounds moved inward by left*xres, right*xres,
\* bottom*yres and top*yres on the respective sides, and the CRS unchanged.
C3_RawCrop ==
    (cropPc = "done" /\ ~_isimage(cropIn.fmt) /\ CropValidOffsets)
    => LET xres == (cropIn.bounds[3] - cropIn.bounds[1]) \div cropIn.w
           yres == (cropIn.bounds[4] - cropIn.bounds[2]) \div cropIn.h
       IN  /\ cropOut.data.px = CropExpectedPixels
           /\ cropOut.bounds = << cropIn.bounds[1] + cropIn.offsets[1] * xres,
                                  cropIn.bounds[2] + cropIn.offsets[3] * yres,
                                  cropIn.bounds[3] - cropIn.offsets[2] * xres,
                                  cropIn.bounds[4] - cropIn.offsets[4] * yres >>
           /\ cropOut.crs = cropIn.crs

\* C4: crop on channel-last data, whatever the case of the format name,
\* returns rows [top : height-bottom] and columns [left : width-right] with
\* all channels, of spatial size (height-top-bottom, width-left-right), and
\* null bounds and CRS.
C4_ImageCrop ==
    (cropPc = "done" /\ _isimage(cropIn.fmt) /\ CropValidOffsets)
    => /\ cropOut.data.px = CropExpectedPixels
       /\ cropOut.data.shape
            = << cropIn.h - cropIn.offsets[4] - cropIn.offsets[3],
                 cropIn.w - cropIn.offsets[1] - cropIn.offsets[2],
                 CropArray(cropIn).shape[3] >>
       /\ cropOut.bounds = NoBounds
       /\ cropOut.crs = None

=============================================================================
